---------------------------- MODULE Spec2Model ----------------------------
(***************************************************************************)
(* Reference softmax kernels of src/cpu/ref_softmax.cpp: the forward dense *)
(* and generic executors, the five reduction primitives they are built     *)
(* from, and the backward dense and generic executors.                     *)
(*                                                                         *)
(* Numbers.  data_t is a 32-bit float.  Inputs of the forward kernel are   *)
(* whole numbers; everything exponentiation produces, and every value of   *)
(* the backward kernel, is a fixed-point number with One standing for 1.0  *)
(* (so 37 is 0.37).  Subtraction and addition are exact, multiplication    *)
(* and division round (towards minus infinity), expf is a rounded table.   *)
(* A buffer is a function from offsets 0..N-1 to numbers.                  *)
(***************************************************************************)
EXTENDS Integers, Sequences, FiniteSets, TLC

(* ------------------------------ bounds -------------------------------- *)
MaxOuter == 2
MaxChannels == 3
MaxInner == 2
MaxElems == 4
MaxN == 67

(* ------------------------- program constants -------------------------- *)
\* data_t(1), the fixed-point unit
One == 100
\* FLT_MAX of <float.h>, far above every value a run produces
FLT_MAX == 1000000
\* constexpr int unroll_factor = 32
unroll_factor == 32

(* values the input buffers are drawn from *)
SrcVals == {-3, -1, 1}
DataVals == {20, 30, 50}
DiffVals == {0, 100}
AlphaVals == {-2, 3}
Garbage == {0, 7}

VARIABLES
    kernel,            \* "forward", "backward" or "sub": the kernel under execution
    outer_size, channels, inner_size,
    use_cblas, use_mkl,        \* the build's USE_CBLAS / USE_MKL
    data_d, diff_d,            \* the layouts of the two memory descriptors
    pc,                        \* "generic", "dense" or "done"
    \* forward
    src, dst, dst_generic,
    loop,                      \* position of execute_forward_generic
    space_max_val, space_denom_val, scratchpad,
    unit,                      \* per ou: the lambda of execute_forward_dense
    hist,                      \* history of the values each executor used
    reads, writes,             \* per dense unit: the offsets it read / wrote
    src0,                      \* the input buffers as they were handed in
    \* backward
    data, diff_dst, diff_src, diff_src_generic,
    bunit,                     \* per ou: the lambda of execute_backward_dense
    gunit,                     \* per ou: the lambda of execute_backward_generic
    data_reads,                \* the reads of data execute_backward_generic made
    \* _sub on its own
    sub_in, sub_out

shapeVars == <<kernel, outer_size, channels, inner_size, use_cblas, use_mkl,
               data_d, diff_d>>
fwdVars == <<src, dst, dst_generic, loop, space_max_val, space_denom_val,
             scratchpad, unit, hist>>
bwdVars == <<data, diff_dst, diff_src, diff_src_generic, bunit, gunit,
             data_reads>>
subVars == <<sub_in, sub_out>>
vars == <<shapeVars, pc, fwdVars, reads, writes, src0, bwdVars, subVars>>

(* ----------------------------- arithmetic ----------------------------- *)
Abs(a) == IF a < 0 THEN -a ELSE a

\* nstl::max
nstl_max(a, b) == IF a < b THEN b ELSE a

\* data_t * data_t
FMul(a, b) == (a * b) \div One

\* data_t / data_t; a zero divisor gives the largest value
FDiv(a, b) == IF b = 0 THEN FLT_MAX ELSE (a * One) \div b

\* One * e^d for d in -6..6, rounded
ExpTab == <<0, 1, 2, 5, 14, 37, 100, 272, 739, 2009, 5460, 14841, 40343>>

\* expf / exp / vsExp of one element
expf(d) == IF d < -6 THEN 0 ELSE IF d > 6 THEN FLT_MAX ELSE ExpTab[d + 7]

(* ------------------------- strided addressing ------------------------- *)
dim == channels * inner_size
Elems == outer_size * channels * inner_size
Offsets == 0 .. (Elems - 1)
Outer == 0 .. (outer_size - 1)
Chan == 0 .. (channels - 1)
Inner == 0 .. (inner_size - 1)

\* the logical index the executors form: ou * dim + c * inner_size_ + in
Logical(ou, c, in) == ou * dim + c * inner_size + in

\* memory_desc_wrapper::off_l: "nchw" keeps the logical order, "nhwc" stores
\* the channel axis innermost
off_l(d, l) ==
    IF d = "nchw" THEN l
    ELSE LET ou == l \div dim
             c == (l % dim) \div inner_size
             in == l % inner_size
         IN  ou * dim + in * channels + c


(* ------------------------ reduction primitives ------------------------ *)
\* the reference scan of _max from index c on, m the maximum so far
RECURSIVE MaxScan(_, _, _, _, _)
MaxScan(n, x, xb, c, m) ==
    IF c >= n THEN m ELSE MaxScan(n, x, xb, c + 1, nstl_max(m, x[xb + c]))

\* cblas_isamax(n, x, 1): the first index of an element of largest magnitude
cblas_isamax(n, x, xb) ==
    CHOOSE k \in 0 .. (n - 1) :
        /\ \A j \in 0 .. (n - 1) : Abs(x[xb + j]) <= Abs(x[xb + k])
        /\ \A j \in 0 .. (k - 1) : Abs(x[xb + j]) < Abs(x[xb + k])

\* _max(n, x, max_data), x pointing at offset xb
_max(n, x, xb) ==
    IF use_cblas THEN x[xb + cblas_isamax(n, x, xb)]
    ELSE MaxScan(n, x, xb, 1, x[xb])

\* int tail = n % unroll_factor
tail(n) == n % unroll_factor

\* the unrolled loop bounded by n
BlockLimitN(n) == n

\* the bound of the unrolled loop: i < n - tail
BlockLimit(n) == n - tail(n)

\* y[i] = x[i] - alpha of _sub.  st holds the y buffer, and per offset how often
\* and by which loop it was written; oob records an access outside [0, n).
\* With alias, x is the y buffer itself.
SubAssign(st, n, alpha, x, xb, yb, alias, i, phase) ==
    IF i >= 0 /\ i < n
    THEN LET xv == IF alias THEN st.y[xb + i] ELSE x[xb + i]
         IN  [st EXCEPT !.y[yb + i] = xv - alpha,
                        !.cnt[yb + i] = @ + 1,
                        !.by[yb + i] = phase]
    ELSE [st EXCEPT !.oob = TRUE]

\* _sub moved on by one loop test: S holds the loop it is in (pc), i, j and st.
\*   for (i = 0; i < n - tail; i += unroll_factor)
\*       for (j = 0; j < unroll_factor; j++) y[i + j] = x[i + j] - alpha;
\*   for (i = n - tail; i < n; i++) y[i] = x[i] - alpha;
SubStep(S, n, alpha, x, xb, yb, alias) ==
    IF S.pc = "block"
    THEN IF S.i >= BlockLimit(n)
         THEN [S EXCEPT !.pc = "tail", !.i = n - tail(n), !.j = 0]
         ELSE [S EXCEPT
                  !.st = SubAssign(S.st, n, alpha, x, xb, yb, alias, S.i + S.j, "block"),
                  !.i = IF S.j + 1 < unroll_factor THEN S.i ELSE S.i + unroll_factor,
                  !.j = IF S.j + 1 < unroll_factor THEN S.j + 1 ELSE 0]
    ELSE IF S.i >= n
         THEN [S EXCEPT !.pc = "done"]
         ELSE [S EXCEPT
                  !.st = SubAssign(S.st, n, alpha, x, xb, yb, alias, S.i, "tail"),
                  !.i = S.i + 1]

\* _sub entered with y the output buffer
SubStart(y) ==
    [pc |-> "block", i |-> 0, j |-> 0,
     st |-> [y |-> y, cnt |-> [k \in DOMAIN y |-> 0],
             by |-> [k \in DOMAIN y |-> "none"], oob |-> FALSE]]

RECURSIVE SubRun(_, _, _, _, _, _, _)
SubRun(S, n, alpha, x, xb, yb, alias) ==
    IF S.pc = "done" THEN S.st
    ELSE SubRun(SubStep(S, n, alpha, x, xb, yb, alias), n, alpha, x, xb, yb, alias)

\* _sub(n, alpha, x, y), x at offset xb, y at offset yb, run to its end
_sub(n, alpha, x, xb, y, yb, alias) ==
    SubRun(SubStart(y), n, alpha, x, xb, yb, alias)

\* one unit of _exp: r[c] = expf(a[c]), a = r = buf at offset k
ExpAt(buf, k) == [buf EXCEPT ![k] = expf(@)]

\* vsExp(n, a, r) on buf at offset b
vsExp(n, buf, b) ==
    [k \in DOMAIN buf |-> IF k >= b /\ k < b + n THEN expf(buf[k]) ELSE buf[k]]

\* the reference accumulation of _sum from index c on
RECURSIVE SumScan(_, _, _, _, _)
SumScan(n, x, xb, c, tsum) ==
    IF c >= n THEN tsum ELSE SumScan(n, x, xb, c + 1, tsum + x[xb + c])

\* cblas_sasum(n, x, 1): the sum of the magnitudes
RECURSIVE cblas_sasum(_, _, _, _)
cblas_sasum(n, x, xb, c) ==
    IF c >= n THEN 0 ELSE Abs(x[xb + c]) + cblas_sasum(n, x, xb, c + 1)

\* _sum(n, x, sum_data)
_sum(n, x, xb) ==
    IF use_cblas THEN cblas_sasum(n, x, xb, 0) ELSE SumScan(n, x, xb, 0, 0)

\* one unit of _scal: x[c] *= alpha
ScalAt(buf, k, alpha) == [buf EXCEPT ![k] = FMul(@, alpha)]

\* cblas_sscal(n, alpha, x, 1) on buf at offset b
cblas_sscal(n, alpha, buf, b) ==
    [k \in DOMAIN buf |-> IF k >= b /\ k < b + n THEN FMul(buf[k], alpha) ELSE buf[k]]

(* ---------------------- execute_forward_generic ----------------------- *)
\* space_denom = space_max + inner_size_
space_denom_base == inner_size

\* the scratch state as one value: the two local scalars and the scratchpad
Scratch == [mv |-> space_max_val, dv |-> space_denom_val, pad |-> scratchpad]

\* space_max[in] and space_denom[in]: the locals when inner_size_ == 1, the two
\* halves of the scratchpad otherwise
space_max(s, in) == IF inner_size > 1 THEN s.pad[in] ELSE s.mv
space_denom(s, in) == IF inner_size > 1 THEN s.pad[space_denom_base + in] ELSE s.dv

PutMax(s, in, v) ==
    IF inner_size > 1 THEN [s EXCEPT !.pad[in] = v] ELSE [s EXCEPT !.mv = v]
PutDenom(s, in, v) ==
    IF inner_size > 1 THEN [s EXCEPT !.pad[space_denom_base + in] = v]
    ELSE [s EXCEPT !.dv = v]

\* utils::array_set(space_max, v, inner_size_), then the same for space_denom
RECURSIVE array_set_max(_, _, _)
array_set_max(s, v, k) ==
    IF k >= inner_size THEN s ELSE array_set_max(PutMax(s, k, v), v, k + 1)
RECURSIVE array_set_denom(_, _, _)
array_set_denom(s, v, k) ==
    IF k >= inner_size THEN s ELSE array_set_denom(PutDenom(s, k, v), v, k + 1)

\* the scratch arrays set before the first group only
GroupResetOnce(s, ou) ==
    IF ou = 0 THEN array_set_denom(array_set_max(s, -FLT_MAX, 0), 0, 0) ELSE s

\* the scratch state at the top of the loop body for group ou (lines 71-72)
GroupReset(s, ou) == array_set_denom(array_set_max(s, -FLT_MAX, 0), 0, 0)

Commit(s) ==
    /\ space_max_val' = s.mv
    /\ space_denom_val' = s.dv
    /\ scratchpad' = s.pad

\* the (c, in) loop nest moved on by one iteration; c = channels when it is over
NextPos(c, in) ==
    IF in + 1 < inner_size THEN [c |-> c, in |-> in + 1] ELSE [c |-> c + 1, in |-> 0]

Sweep(l, name) ==
    IF NextPos(l.c, l.in).c >= channels
    THEN [l EXCEPT !.sweep = name, !.c = 0, !.in = 0]
    ELSE [l EXCEPT !.c = NextPos(l.c, l.in).c, !.in = NextPos(l.c, l.in).in]

\* size_t off = data_d.off_l(ou * dim + c * inner_size_ + in)
FwdOff(l) == off_l(data_d, Logical(l.ou, l.c, l.in))

\* the maximum kept in one cell for every inner index
MaxUpdateOneCell(s, in, v) == PutMax(s, 0, nstl_max(space_max(s, 0), v))

\* space_max[in] = nstl::max(space_max[in], src[off])
MaxUpdate(s, in, v) == PutMax(s, in, nstl_max(space_max(s, in), v))

\* lines 71-72
GenericSet ==
    /\ kernel = "forward" /\ pc = "generic" /\ loop.sweep = "set"
    /\ Commit(GroupReset(Scratch, loop.ou))
    /\ loop' = [loop EXCEPT !.sweep = "max", !.c = 0, !.in = 0]
    /\ UNCHANGED <<shapeVars, pc, src, dst, dst_generic, unit, hist, reads, writes,
                   src0, bwdVars, subVars>>

\* lines 74-79, one iteration
GenericMax ==
    /\ kernel = "forward" /\ pc = "generic" /\ loop.sweep = "max"
    /\ Commit(MaxUpdate(Scratch, loop.in, src[FwdOff(loop)]))
    /\ loop' = Sweep(loop, "exp")
    /\ UNCHANGED <<shapeVars, pc, src, dst, dst_generic, unit, hist, reads, writes,
                   src0, bwdVars, subVars>>

\* lines 81-86, one iteration
GenericExp ==
    /\ kernel = "forward" /\ pc = "generic" /\ loop.sweep = "exp"
    /\ LET off == FwdOff(loop)
           arg == src[off] - space_max(Scratch, loop.in)
           e == expf(arg)
       IN  /\ dst_generic' = [dst_generic EXCEPT ![off] = e]
           /\ Commit(PutDenom(Scratch, loop.in, space_denom(Scratch, loop.in) + e))
           /\ hist' = [hist EXCEPT !.g_max[off] = space_max(Scratch, loop.in),
                                   !.g_arg[off] = arg]
    /\ loop' = Sweep(loop, "div")
    /\ UNCHANGED <<shapeVars, pc, src, dst, unit, reads, writes, src0, bwdVars,
                   subVars>>

\* lines 88-93, one iteration; after the last one the next group, or the end
GenericDiv ==
    /\ kernel = "forward" /\ pc = "generic" /\ loop.sweep = "div"
    /\ LET off == FwdOff(loop)
           over == Sweep(loop, "set").sweep = "set"
       IN  /\ dst_generic' = [dst_generic EXCEPT
                                 ![off] = FDiv(@, space_denom(Scratch, loop.in))]
           /\ hist' = [hist EXCEPT !.g_denom[off] = space_denom(Scratch, loop.in)]
           /\ loop' = IF over THEN [Sweep(loop, "set") EXCEPT !.ou = @ + 1]
                      ELSE Sweep(loop, "set")
           /\ pc' = IF over /\ loop.ou + 1 >= outer_size
                    THEN (IF inner_size = 1 THEN "dense" ELSE "done")
                    ELSE pc
    /\ UNCHANGED <<shapeVars, src, dst, space_max_val, space_denom_val, scratchpad,
                   unit, reads, writes, src0, bwdVars, subVars>>

(* ----------------------- execute_forward_dense ------------------------ *)
\* const data_t *src_data = src + ou * channels_
src_data(ou) == ou * channels
\* every unit given the start of dst
dst_data_shared(ou) == 0

\* data_t *dst_data = dst + ou * channels_
dst_data(ou) == ou * channels

\* the offsets a primitive called with n = channels_ at base b touches
Span(b) == b .. (b + channels - 1)
Touch(name, b) == {<<name, k>> : k \in Span(b)}

\* buf with the entries of Span(b) replaced by those of f
Over(buf, b, f) == [k \in DOMAIN buf |-> IF k \in Span(b) THEN f[k] ELSE buf[k]]
Fill(buf, b, v) == [k \in DOMAIN buf |-> IF k \in Span(b) THEN v ELSE buf[k]]

\* the join of parallel_nd(outer_size_, ...): the executor returns when the last
\* unit has finished
Joined(u) == IF \A o \in Outer : u[o].pc = "done" THEN "done" ELSE "dense"

\* _max(channels_, src_data, &scalar)
DenseMax(ou) ==
    /\ kernel = "forward" /\ pc = "dense" /\ unit[ou].pc = "max"
    /\ unit' = [unit EXCEPT ![ou].scalar = _max(channels, src, src_data(ou)),
                            ![ou].pc = "sub"]
    /\ reads' = [reads EXCEPT ![ou] = @ \cup Touch("src", src_data(ou))]
    /\ UNCHANGED <<shapeVars, pc, src, dst, dst_generic, loop, space_max_val,
                   space_denom_val, scratchpad, hist, writes, src0, bwdVars, subVars>>

\* _sub(channels_, scalar, src_data, dst_data)
DenseSub(ou) ==
    /\ kernel = "forward" /\ pc = "dense" /\ unit[ou].pc = "sub"
    /\ LET r == _sub(channels, unit[ou].scalar, src, src_data(ou), dst,
                     dst_data(ou), FALSE)
       IN  /\ dst' = r.y
           /\ hist' = [hist EXCEPT
                          !.d_max = Fill(@, dst_data(ou), unit[ou].scalar),
                          !.d_arg = Over(@, dst_data(ou), r.y)]
    /\ unit' = [unit EXCEPT ![ou].pc = "exp", ![ou].todo = Chan]
    /\ reads' = [reads EXCEPT ![ou] = @ \cup Touch("src", src_data(ou))]
    /\ writes' = [writes EXCEPT ![ou] = @ \cup Touch("dst", dst_data(ou))]
    /\ UNCHANGED <<shapeVars, pc, src, dst_generic, loop, space_max_val,
                   space_denom_val, scratchpad, src0, bwdVars, subVars>>

\* _exp(channels_, dst_data, dst_data) under USE_MKL: vsExp(n, a, r)
DenseVsExp(ou) ==
    /\ kernel = "forward" /\ pc = "dense" /\ unit[ou].pc = "exp" /\ use_mkl
    /\ dst' = vsExp(channels, dst, dst_data(ou))
    /\ unit' = [unit EXCEPT ![ou].pc = "sum", ![ou].todo = {}]
    /\ reads' = [reads EXCEPT ![ou] = @ \cup Touch("dst", dst_data(ou))]
    /\ writes' = [writes EXCEPT ![ou] = @ \cup Touch("dst", dst_data(ou))]
    /\ UNCHANGED <<shapeVars, pc, src, dst_generic, loop, space_max_val,
                   space_denom_val, scratchpad, hist, src0, bwdVars, subVars>>

\* _exp otherwise: one unit c of parallel_nd(n, r[c] = expf(a[c]))
DenseExpUnit(ou, c) ==
    /\ kernel = "forward" /\ pc = "dense" /\ unit[ou].pc = "exp" /\ ~use_mkl
    /\ c \in unit[ou].todo
    /\ dst' = ExpAt(dst, dst_data(ou) + c)
    /\ unit' = [unit EXCEPT ![ou].todo = @ \ {c},
                            ![ou].pc = IF unit[ou].todo = {c} THEN "sum" ELSE "exp"]
    /\ reads' = [reads EXCEPT ![ou] = @ \cup {<<"dst", dst_data(ou) + c>>}]
    /\ writes' = [writes EXCEPT ![ou] = @ \cup {<<"dst", dst_data(ou) + c>>}]
    /\ UNCHANGED <<shapeVars, pc, src, dst_generic, loop, space_max_val,
                   space_denom_val, scratchpad, hist, src0, bwdVars, subVars>>

\* _sum(channels_, dst_data, &scalar), and the argument data_t(1)/scalar of _scal
DenseSum(ou) ==
    /\ kernel = "forward" /\ pc = "dense" /\ unit[ou].pc = "sum"
    /\ LET sum == _sum(channels, dst, dst_data(ou))
       IN  /\ unit' = [unit EXCEPT ![ou].scalar = sum,
                                   ![ou].alpha = FDiv(One, sum),
                                   ![ou].pc = "scal",
                                   ![ou].todo = Chan]
           /\ hist' = [hist EXCEPT !.d_denom = Fill(@, dst_data(ou), sum)]
    /\ reads' = [reads EXCEPT ![ou] = @ \cup Touch("dst", dst_data(ou))]
    /\ UNCHANGED <<shapeVars, pc, src, dst, dst_generic, loop, space_max_val,
                   space_denom_val, scratchpad, writes, src0, bwdVars, subVars>>

\* _scal(channels_, data_t(1)/scalar, dst_data) under USE_CBLAS: cblas_sscal
DenseSscal(ou) ==
    /\ kernel = "forward" /\ pc = "dense" /\ unit[ou].pc = "scal" /\ use_cblas
    /\ dst' = cblas_sscal(channels, unit[ou].alpha, dst, dst_data(ou))
    /\ unit' = [unit EXCEPT ![ou].pc = "done", ![ou].todo = {}]
    /\ pc' = Joined(unit')
    /\ reads' = [reads EXCEPT ![ou] = @ \cup Touch("dst", dst_data(ou))]
    /\ writes' = [writes EXCEPT ![ou] = @ \cup Touch("dst", dst_data(ou))]
    /\ UNCHANGED <<shapeVars, src, dst_generic, loop, space_max_val,
                   space_denom_val, scratchpad, hist, src0, bwdVars, subVars>>

\* _scal otherwise: one unit c of parallel_nd(n, x[c] *= alpha)
DenseScalUnit(ou, c) ==
    /\ kernel = "forward" /\ pc = "dense" /\ unit[ou].pc = "scal" /\ ~use_cblas
    /\ c \in unit[ou].todo
    /\ dst' = ScalAt(dst, dst_data(ou) + c, unit[ou].alpha)
    /\ unit' = [unit EXCEPT ![ou].todo = @ \ {c},
                            ![ou].pc = IF unit[ou].todo = {c} THEN "done" ELSE "scal"]
    /\ pc' = Joined(unit')
    /\ reads' = [reads EXCEPT ![ou] = @ \cup {<<"dst", dst_data(ou) + c>>}]
    /\ writes' = [writes EXCEPT ![ou] = @ \cup {<<"dst", dst_data(ou) + c>>}]
    /\ UNCHANGED <<shapeVars, src, dst_generic, loop, space_max_val,
                   space_denom_val, scratchpad, hist, src0, bwdVars, subVars>>

(* ----------------------- execute_backward_dense ----------------------- *)
\* size_t off = channels_ * ou
bwd_off(ou) == channels * ou

\* the join of parallel_nd(outer_size_, ...) of execute_backward_dense
BwdJoined(u) == IF \A o \in Outer : u[o].pc = "done" THEN "done" ELSE "dense"

\* sbr += diff_dst[loff] * ldata
SbrAdd(sbr, g, ldata) == sbr + FMul(g, ldata)

\* the correction with the reduction term left out
DenseCorrectNoSbr(v, g, sbr) == FMul(v, g)

\* diff_src[loff] *= (diff_dst[loff] - sbr)
DenseCorrect(v, g, sbr) == FMul(v, g - sbr)

\* lines 182-187, one iteration
BwdDenseCopy(ou) ==
    /\ kernel = "backward" /\ pc = "dense" /\ bunit[ou].pc = "copy"
    /\ LET loff == bwd_off(ou) + bunit[ou].c
           ldata == data[loff]
       IN  /\ diff_src' = [diff_src EXCEPT ![loff] = ldata]
           /\ bunit' = [bunit EXCEPT
                  ![ou].sbr = SbrAdd(@, diff_dst[loff], ldata),
                  ![ou].c = IF bunit[ou].c + 1 < channels THEN @ + 1 ELSE 0,
                  ![ou].pc = IF bunit[ou].c + 1 < channels THEN "copy" ELSE "mul"]
           /\ reads' = [reads EXCEPT
                  ![ou] = @ \cup {<<"data", loff>>, <<"diff_dst", loff>>}]
           /\ writes' = [writes EXCEPT ![ou] = @ \cup {<<"diff_src", loff>>}]
    /\ UNCHANGED <<shapeVars, pc, fwdVars, src0, data, diff_dst, diff_src_generic,
                   gunit, data_reads, subVars>>

\* lines 189-192, one iteration
BwdDenseMul(ou) ==
    /\ kernel = "backward" /\ pc = "dense" /\ bunit[ou].pc = "mul"
    /\ LET loff == bwd_off(ou) + bunit[ou].c
       IN  /\ diff_src' = [diff_src EXCEPT
                              ![loff] = DenseCorrect(@, diff_dst[loff], bunit[ou].sbr)]
           /\ bunit' = [bunit EXCEPT
                  ![ou].c = IF bunit[ou].c + 1 < channels THEN @ + 1 ELSE 0,
                  ![ou].pc = IF bunit[ou].c + 1 < channels THEN "mul" ELSE "done"]
           /\ reads' = [reads EXCEPT
                  ![ou] = @ \cup {<<"diff_src", loff>>, <<"diff_dst", loff>>}]
           /\ writes' = [writes EXCEPT ![ou] = @ \cup {<<"diff_src", loff>>}]
    /\ pc' = BwdJoined(bunit')
    /\ UNCHANGED <<shapeVars, fwdVars, src0, data, diff_dst, diff_src_generic,
                   gunit, data_reads, subVars>>

(* ---------------------- execute_backward_generic ---------------------- *)
\* size_t off_diff = diff_d.off_l(ou * dim + c * inner_size_ + in)
off_diff(ou, c, in) == off_l(diff_d, Logical(ou, c, in))

\* off_data of the reduction sweep (line 210)
off_data_reduce(ou, c, in) == off_l(diff_d, Logical(ou, c, in))

\* off_data of the correction sweep (line 216)
off_data_correct(ou, c, in) == off_l(data_d, Logical(ou, c, in))

\* lines 208-212: sbr += diff_dst[off_diff] * data[off_data], from channel c on
RECURSIVE ReduceLoop(_, _, _, _)
ReduceLoop(ou, in, c, sbr) ==
    IF c >= channels THEN sbr
    ELSE ReduceLoop(ou, in, c + 1,
             sbr + FMul(diff_dst[off_diff(ou, c, in)],
                        data[off_data_reduce(ou, c, in)]))

\* lines 214-218: diff_src[off_diff] = data[off_data] * (diff_dst[off_diff] - sbr)
RECURSIVE CorrectLoop(_, _, _, _, _)
CorrectLoop(buf, ou, in, c, sbr) ==
    IF c >= channels THEN buf
    ELSE CorrectLoop(
             [buf EXCEPT ![off_diff(ou, c, in)] =
                 FMul(data[off_data_correct(ou, c, in)],
                      diff_dst[off_diff(ou, c, in)] - sbr)],
             ou, in, c + 1, sbr)

\* the join of parallel_nd of execute_backward_generic; the dense executor is
\* run next on a tensor it accepts
GenJoined(u) ==
    IF \A o \in Outer : u[o].pc = "done"
    THEN (IF inner_size = 1 THEN "dense" ELSE "done")
    ELSE "generic"

\* the reduction sweep of one (ou, in)
BwdGenericReduce(ou) ==
    /\ kernel = "backward" /\ pc = "generic" /\ gunit[ou].pc = "reduce"
    /\ gunit' = [gunit EXCEPT ![ou].sbr = ReduceLoop(ou, gunit[ou].in, 0, 0),
                              ![ou].pc = "correct"]
    /\ data_reads' = data_reads \cup
           {[sweep |-> "reduce", l |-> Logical(ou, c, gunit[ou].in),
             off |-> off_data_reduce(ou, c, gunit[ou].in)] : c \in Chan}
    /\ UNCHANGED <<shapeVars, pc, fwdVars, reads, writes, src0, data, diff_dst,
                   diff_src, diff_src_generic, bunit, subVars>>

\* the correction sweep of one (ou, in), then the next in
BwdGenericCorrect(ou) ==
    /\ kernel = "backward" /\ pc = "generic" /\ gunit[ou].pc = "correct"
    /\ diff_src_generic' =
           CorrectLoop(diff_src_generic, ou, gunit[ou].in, 0, gunit[ou].sbr)
    /\ gunit' = [gunit EXCEPT
           ![ou].in = IF gunit[ou].in + 1 < inner_size THEN @ + 1 ELSE 0,
           ![ou].sbr = 0,
           ![ou].pc = IF gunit[ou].in + 1 < inner_size THEN "reduce" ELSE "done"]
    /\ data_reads' = data_reads \cup
           {[sweep |-> "correct", l |-> Logical(ou, c, gunit[ou].in),
             off |-> off_data_correct(ou, c, gunit[ou].in)] : c \in Chan}
    /\ pc' = GenJoined(gunit')
    /\ UNCHANGED <<shapeVars, fwdVars, reads, writes, src0, data, diff_dst,
                   diff_src, bunit, subVars>>

(* ---------------------------- _sub on its own -------------------------- *)
\* _sub(n, alpha, x, y) on arrays of length n, one loop test at a time; y is x
\* itself when alias
SubCall ==
    /\ kernel = "sub" /\ pc = "call"
    /\ sub_out' = SubStep(sub_out, sub_in.n, sub_in.alpha, sub_in.x, 0, 0,
                          sub_in.alias)
    /\ pc' = IF sub_out'.pc = "done" THEN "done" ELSE "call"
    /\ UNCHANGED <<shapeVars, fwdVars, reads, writes, src0, bwdVars, sub_in>>

(* -------------------------------- Init -------------------------------- *)
Shapes ==
    {sh \in (1 .. MaxOuter) \X (1 .. MaxChannels) \X (1 .. MaxInner) :
        sh[1] * sh[2] * sh[3] <= MaxElems}

\* the layouts a descriptor of a tensor with inner size i can have
Layouts(i) == IF i > 1 THEN {"nchw", "nhwc"} ELSE {"nchw"}

Buf(n, v) == [k \in 0 .. (n - 1) |-> v]
NoBuf == Buf(0, 0)
Zero6(n) == [g_max |-> Buf(n, 0), g_arg |-> Buf(n, 0), g_denom |-> Buf(n, 0),
             d_max |-> Buf(n, 0), d_arg |-> Buf(n, 0), d_denom |-> Buf(n, 0)]

IdleFwd ==
    /\ src = NoBuf /\ dst = NoBuf /\ dst_generic = NoBuf
    /\ loop = [ou |-> 0, sweep |-> "set", c |-> 0, in |-> 0]
    /\ space_max_val = 0 /\ space_denom_val = 0 /\ scratchpad = NoBuf
    /\ unit = NoBuf /\ hist = Zero6(0)

IdleBwd ==
    /\ data = NoBuf /\ diff_dst = NoBuf /\ diff_src = NoBuf
    /\ diff_src_generic = NoBuf
    /\ bunit = NoBuf /\ gunit = NoBuf /\ data_reads = {}

IdleSub ==
    /\ sub_in = [n |-> 0, alpha |-> 0, x |-> NoBuf, alias |-> FALSE]
    /\ sub_out = SubStart(NoBuf)

InitForward ==
    /\ kernel = "forward" /\ pc = "generic"
    /\ \E sh \in Shapes :
          /\ outer_size = sh[1] /\ channels = sh[2] /\ inner_size = sh[3]
          /\ data_d \in Layouts(sh[3]) /\ diff_d = "nchw"
          /\ src \in [0 .. (sh[1] * sh[2] * sh[3] - 1) -> SrcVals]
          /\ \E g \in Garbage :
                /\ dst = Buf(sh[1] * sh[2] * sh[3], g)
                /\ dst_generic = Buf(sh[1] * sh[2] * sh[3], g)
                /\ scratchpad = IF sh[3] > 1 THEN Buf(2 * sh[3], g) ELSE NoBuf
          /\ hist = Zero6(sh[1] * sh[2] * sh[3])
          /\ unit = [o \in 0 .. (sh[1] - 1) |->
                        [pc |-> "max", scalar |-> 0, alpha |-> 0, todo |-> {}]]
          /\ reads = [o \in 0 .. (sh[1] - 1) |-> {}]
          /\ writes = [o \in 0 .. (sh[1] - 1) |-> {}]
    /\ use_cblas \in BOOLEAN /\ use_mkl \in BOOLEAN
    /\ loop = [ou |-> 0, sweep |-> "set", c |-> 0, in |-> 0]
    /\ space_max_val = 0 /\ space_denom_val = 0
    /\ src0 = src
    /\ IdleBwd /\ IdleSub

InitBackward ==
    /\ kernel = "backward" /\ pc = "generic"
    /\ \E sh \in Shapes :
          /\ outer_size = sh[1] /\ channels = sh[2] /\ inner_size = sh[3]
          /\ data_d \in Layouts(sh[3]) /\ diff_d \in Layouts(sh[3])
          /\ data \in [0 .. (sh[1] * sh[2] * sh[3] - 1) -> DataVals]
          /\ diff_dst \in [0 .. (sh[1] * sh[2] * sh[3] - 1) -> DiffVals]
          /\ \E g \in Garbage :
                /\ diff_src = Buf(sh[1] * sh[2] * sh[3], g)
                /\ diff_src_generic = Buf(sh[1] * sh[2] * sh[3], g)
          /\ bunit = [o \in 0 .. (sh[1] - 1) |-> [pc |-> "copy", c |-> 0, sbr |-> 0]]
          /\ gunit = [o \in 0 .. (sh[1] - 1) |-> [pc |-> "reduce", in |-> 0, sbr |-> 0]]
          /\ reads = [o \in 0 .. (sh[1] - 1) |-> {}]
          /\ writes = [o \in 0 .. (sh[1] - 1) |-> {}]
    /\ use_cblas = FALSE /\ use_mkl = FALSE
    /\ data_reads = {}
    /\ src0 = <<data, diff_dst>>
    /\ IdleFwd /\ IdleSub

\* the array _sub is tried on: x[i] runs through -2..2 from p on
SubArray(n, p) == [i \in 0 .. (n - 1) |-> ((i * 3 + p) % 5) - 2]

InitSub ==
    /\ kernel = "sub" /\ pc = "call"
    /\ outer_size = 1 /\ channels = 1 /\ inner_size = 1
    /\ use_cblas = FALSE /\ use_mkl = FALSE /\ data_d = "nchw" /\ diff_d = "nchw"
    /\ \E n \in 0 .. MaxN, p \in {0, 1}, a \in AlphaVals, al \in BOOLEAN :
          /\ sub_in = [n |-> n, alpha |-> a, x |-> SubArray(n, p), alias |-> al]
          /\ sub_out = SubStart(IF al THEN SubArray(n, p) ELSE Buf(n, 7))
    /\ reads = NoBuf /\ writes = NoBuf /\ src0 = NoBuf
    /\ IdleFwd /\ IdleBwd

Init == InitForward \/ InitBackward \/ InitSub

Next ==
    \/ GenericSet
    \/ GenericMax
    \/ GenericExp
    \/ GenericDiv
    \/ \E ou \in Outer : DenseMax(ou)
    \/ \E ou \in Outer : DenseSub(ou)
    \/ \E ou \in Outer : DenseVsExp(ou)
    \/ \E ou \in Outer, c \in Chan : DenseExpUnit(ou, c)
    \/ \E ou \in Outer : DenseSum(ou)
    \/ \E ou \in Outer : DenseSscal(ou)
    \/ \E ou \in Outer, c \in Chan : DenseScalUnit(ou, c)
    \/ \E ou \in Outer : BwdGenericReduce(ou)
    \/ \E ou \in Outer : BwdGenericCorrect(ou)
    \/ \E ou \in Outer : BwdDenseCopy(ou)
    \/ \E ou \in Outer : BwdDenseMul(ou)
    \/ SubCall

Spec == Init /\ [][Next]_vars

(* ====================================================================== *)
(*                               properties                               *)
(* ====================================================================== *)
\* the largest element of a finite non-empty set of numbers
SetMax(S) == CHOOSE m \in S : \A v \in S : v <= m

\* f[0] + ... + f[n-1]
RECURSIVE Sigma(_, _)
Sigma(f, n) == IF n = 0 THEN 0 ELSE f[n - 1] + Sigma(f, n - 1)

\* the source offset of (ou, c, in)
SrcOff(ou, c, in) == off_l(data_d, Logical(ou, c, in))

\* the dense slice of group ou
Slice(ou) == (ou * channels) .. ((ou + 1) * channels - 1)

FwdDenseRan == kernel = "forward" /\ pc = "done" /\ inner_size = 1
FwdGenericRan == kernel = "forward" /\ pc # "generic"

(* C1: _max(n, x) returns an element of x[0..n) that is >= every x[i], on the
   reference scan and on the accelerated path alike.  Stated of every unit of
   the dense executor once its _max call has returned. *)
C1_MaxIsMaximum ==
    (kernel = "forward" /\ pc = "dense") =>
        \A ou \in Outer :
            unit[ou].pc = "sub" =>
                /\ \E k \in Slice(ou) : unit[ou].scalar = src[k]
                /\ \A k \in Slice(ou) : unit[ou].scalar >= src[k]

(* C2: in execute_forward_dense every value handed to the exponentiation step
   is <= 0 and at least one of them is 0, whichever _max path produced the
   subtracted scalar. *)
C2_ExpArgsNonPositive ==
    (kernel = "forward" /\ pc \in {"dense", "done"} /\ inner_size = 1) =>
        \A ou \in Outer :
            unit[ou].pc \notin {"max", "sub"} =>
                /\ \A k \in Slice(ou) : hist.d_arg[k] <= 0
                /\ \E k \in Slice(ou) : hist.d_arg[k] = 0

\* M(ou, in), E(ou, c, in) and D(ou, in) of the softmax over the channel axis
M(ou, in) == SetMax({src[SrcOff(ou, k, in)] : k \in Chan})
E(ou, c, in) == expf(src[SrcOff(ou, c, in)] - M(ou, in))
D(ou, in) == Sigma([k \in Chan |-> E(ou, k, in)], channels)

(* C3: after execute_forward_generic, dst[off(ou,c,in)] = E(ou,c,in) / D(ou,in)
   for every (ou, c, in), the maximum and the denominator being taken over the
   channel axis of the one (ou, in) pair only. *)
C3_GenericForwardResult ==
    FwdGenericRan =>
        \A ou \in Outer, c \in Chan, in \in Inner :
            dst_generic[SrcOff(ou, c, in)] = FDiv(E(ou, c, in), D(ou, in))

\* the case of C3: two inner indices with different maxima, stored channel-innermost
C3_Witness ==
    /\ FwdGenericRan /\ pc = "done"
    /\ inner_size = 2 /\ channels = 2 /\ data_d = "nhwc"
    /\ M(0, 0) # M(0, 1)
    /\ D(0, 0) # D(0, 1)

\* sbr of group ou of the dense backward executor
Sbr(ou) == Sigma([k \in Chan |-> FMul(diff_dst[ou * channels + k],
                                      data[ou * channels + k])], channels)

BwdDenseRan == kernel = "backward" /\ pc = "done" /\ inner_size = 1

\* p = [0.2, 0.3, 0.5] and g = [1, 0, 0] as the only group
GradientExample ==
    /\ outer_size = 1 /\ channels = 3 /\ inner_size = 1
    /\ data = (0 :> 20 @@ 1 :> 30 @@ 2 :> 50)
    /\ diff_dst = (0 :> 100 @@ 1 :> 0 @@ 2 :> 0)

(* C4: after execute_backward_dense, diff_src[ou*channels + c] =
   data[ou*channels + c] * (diff_dst[ou*channels + c] - sbr(ou)) for every group
   and channel, sbr(ou) the sum over the group's channels of diff_dst * data;
   for data = [0.2, 0.3, 0.5] and diff_dst = [1, 0, 0] that is
   [0.16, -0.06, -0.10]. *)
C4_DenseBackwardResult ==
    BwdDenseRan =>
        /\ \A ou \in Outer, c \in Chan :
              diff_src[ou * channels + c] =
                  FMul(data[ou * channels + c],
                       diff_dst[ou * channels + c] - Sbr(ou))
        /\ GradientExample => diff_src = (0 :> 16 @@ 1 :> -6 @@ 2 :> -10)

\* the case of C4: the worked example has run, and no element kept the copy
C4_Witness ==
    /\ BwdDenseRan /\ GradientExample
    /\ \A k \in Offsets : diff_src[k] # data[k]

\* the sum over the channel axis of diff_dst * data, each read through its own
\* descriptor
SbrLogical(ou, in) ==
    Sigma([k \in Chan |-> FMul(diff_dst[off_l(diff_d, Logical(ou, k, in))],
                               data[off_l(data_d, Logical(ou, k, in))])], channels)

(* C5: execute_backward_generic reads data at the forward-output descriptor's
   offset of the logical index and diff_dst / diff_src at the gradient
   descriptor's, in the reduction sweep and in the correction sweep, so that
   diff_src[l(c)] = data[l(c)] * (diff_dst[l(c)] - sum_k diff_dst[l(k)] * data[l(k)])
   in logical terms also when the two descriptors differ. *)
C5_GenericBackwardDescriptors ==
    (kernel = "backward" /\ pc # "generic") =>
        /\ \A r \in data_reads : r.off = off_l(data_d, r.l)
        /\ \A ou \in Outer, c \in Chan, in \in Inner :
              diff_src_generic[off_l(diff_d, Logical(ou, c, in))] =
                  FMul(data[off_l(data_d, Logical(ou, c, in))],
                       diff_dst[off_l(diff_d, Logical(ou, c, in))]
                           - SbrLogical(ou, in))

(* C6: on a contiguous tensor the dense and the generic executors agree on
   every element: the forward ones subtract the same maximum, exponentiate the
   same arguments, use the same denominator and leave the same dst; the
   backward ones leave the same diff_src. *)
C6_DenseGenericAgree ==
    /\ FwdDenseRan =>
          /\ hist.d_max = hist.g_max
          /\ hist.d_arg = hist.g_arg
          /\ hist.d_denom = hist.g_denom
          /\ dst = dst_generic
    /\ BwdDenseRan => diff_src = diff_src_generic

\* group b is group a with s added to every element
Shifted(a, b, s) ==
    \A c \in Chan, in \in Inner : src[SrcOff(b, c, in)] = src[SrcOff(a, c, in)] + s

(* C7: adding one scalar to all channels of a group changes neither the values
   passed to exponentiation nor the result, on the dense path (with either
   _max path) and on the generic path.  Stated of two groups of one tensor, one
   of them the other shifted. *)
C7_ShiftInvariance ==
    (kernel = "forward" /\ pc = "done") =>
        \A a \in Outer, b \in Outer :
            Shifted(a, b, src[SrcOff(b, 0, 0)] - src[SrcOff(a, 0, 0)]) =>
                \A c \in Chan, in \in Inner :
                    /\ hist.g_arg[SrcOff(b, c, in)] = hist.g_arg[SrcOff(a, c, in)]
                    /\ dst_generic[SrcOff(b, c, in)] = dst_generic[SrcOff(a, c, in)]
                    /\ inner_size = 1 =>
                          /\ hist.d_arg[SrcOff(b, c, in)] = hist.d_arg[SrcOff(a, c, in)]
                          /\ dst[SrcOff(b, c, in)] = dst[SrcOff(a, c, in)]

\* the units of _exp and of _scal run in index order from c on
RECURSIVE ExpInOrder(_, _, _)
ExpInOrder(buf, b, c) ==
    IF c >= channels THEN buf ELSE ExpInOrder(ExpAt(buf, b + c), b, c + 1)
RECURSIVE ScalInOrder(_, _, _, _)
ScalInOrder(buf, b, alpha, c) ==
    IF c >= channels THEN buf
    ELSE ScalInOrder(ScalAt(buf, b + c, alpha), b, alpha, c + 1)

\* the body of execute_forward_dense for group ou, run on its own from buf
SeqForwardUnit(buf, ou) ==
    LET m == _max(channels, src, src_data(ou))
        y1 == _sub(channels, m, src, src_data(ou), buf, dst_data(ou), FALSE).y
        y2 == IF use_mkl THEN vsExp(channels, y1, dst_data(ou))
              ELSE ExpInOrder(y1, dst_data(ou), 0)
        sum == _sum(channels, y2, dst_data(ou))
    IN  IF use_cblas THEN cblas_sscal(channels, FDiv(One, sum), y2, dst_data(ou))
        ELSE ScalInOrder(y2, dst_data(ou), FDiv(One, sum), 0)

\* the groups run one after another in index order from ou on
RECURSIVE SeqForward(_, _)
SeqForward(buf, ou) ==
    IF ou >= outer_size THEN buf ELSE SeqForward(SeqForwardUnit(buf, ou), ou + 1)

\* the two loops of execute_backward_dense for group ou, run on their own
RECURSIVE SeqCopy(_, _, _)
SeqCopy(r, ou, c) ==
    IF c >= channels THEN r
    ELSE SeqCopy([buf |-> [r.buf EXCEPT ![bwd_off(ou) + c] = data[bwd_off(ou) + c]],
                  sbr |-> SbrAdd(r.sbr, diff_dst[bwd_off(ou) + c],
                                 data[bwd_off(ou) + c])],
                 ou, c + 1)
RECURSIVE SeqMul(_, _, _)
SeqMul(r, ou, c) ==
    IF c >= channels THEN r
    ELSE SeqMul([r EXCEPT !.buf[bwd_off(ou) + c] =
                     DenseCorrect(@, diff_dst[bwd_off(ou) + c], r.sbr)],
                ou, c + 1)
RECURSIVE SeqBackward(_, _)
SeqBackward(buf, ou) ==
    IF ou >= outer_size THEN buf
    ELSE SeqBackward(SeqMul(SeqCopy([buf |-> buf, sbr |-> 0], ou, 0), ou, 0).buf,
                     ou + 1)

DenseRunning ==
    /\ kernel \in {"forward", "backward"}
    /\ pc \in {"dense", "done"}
    /\ inner_size = 1

(* C8: the units of execute_forward_dense and execute_backward_dense, run in
   any order and interleaving (the per-element units of _exp and _scal
   included), touch only the offsets [ou*channels, (ou+1)*channels) of their own
   group; no unit writes what another writes or reads; the input buffers are
   never written; and the output is what running the groups one after another
   in index order gives. *)
C8_DenseUnitsIndependent ==
    DenseRunning =>
        /\ \A ou \in Outer :
              \A a \in reads[ou] \cup writes[ou] : a[2] \in Slice(ou)
        /\ \A ou \in Outer, o2 \in Outer :
              ou # o2 => writes[ou] \cap (writes[o2] \cup reads[o2]) = {}
        /\ kernel = "forward" => src = src0
        /\ kernel = "backward" => <<data, diff_dst>> = src0
        /\ (kernel = "forward" /\ pc = "done") =>
              dst = SeqForward(Buf(Elems, 0), 0)
        /\ (kernel = "backward" /\ pc = "done") =>
              diff_src = SeqBackward(Buf(Elems, 0), 0)

\* the case of C8: the second group has finished while the first is still
\* exponentiating, its second element before its first
C8_Witness ==
    /\ kernel = "forward" /\ pc = "dense"
    /\ outer_size = 2 /\ channels = 2
    /\ unit[1].pc = "done"
    /\ unit[0].pc = "exp" /\ unit[0].todo = {0}
    /\ writes[1] = {<<"dst", 2>>, <<"dst", 3>>}
    /\ dst[2] # dst[0]

(* C9: execute_forward_generic handles the groups strictly one after another,
   and at the start of every group, before its first sweep, space_max[in] is
   not greater than any input element and space_denom[in] = 0 for every in
   (the two locals when inner_size = 1, the two disjoint halves of the
   scratchpad of length 2*inner_size otherwise); so the maximum and the
   denominator used for a group depend on that group alone. *)
C9_ScratchPerGroup ==
    kernel = "forward" =>
        /\ (pc = "generic" /\ loop.sweep = "max" /\ loop.c = 0 /\ loop.in = 0) =>
              \A in \in Inner :
                  /\ \A k \in Offsets : space_max(Scratch, in) <= src[k]
                  /\ space_denom(Scratch, in) = 0
        /\ inner_size > 1 =>
              /\ DOMAIN scratchpad = 0 .. (2 * inner_size - 1)
              /\ \A i \in Inner, j \in Inner : i # space_denom_base + j
        /\ pc = "generic" =>
              \A ou \in Outer, c \in Chan, in \in Inner :
                  /\ ou < loop.ou => hist.g_denom[SrcOff(ou, c, in)] = D(ou, in)
                  /\ ou > loop.ou => hist.g_denom[SrcOff(ou, c, in)] = 0
        /\ pc # "generic" =>
              \A ou \in Outer, c \in Chan, in \in Inner :
                  /\ hist.g_max[SrcOff(ou, c, in)] = M(ou, in)
                  /\ hist.g_denom[SrcOff(ou, c, in)] = D(ou, in)

\* the case of C9: the second group starts on a scratchpad the first group used
C9_Witness ==
    /\ kernel = "forward" /\ pc = "generic"
    /\ inner_size = 2 /\ loop.ou = 1
    /\ loop.sweep = "max" /\ loop.c = 0 /\ loop.in = 0
    /\ hist.g_denom[0] > 0
    /\ M(0, 0) # M(1, 0)

(* C10: for every n >= 0, _sub(n, alpha, x, y) writes each index of [0, n)
   exactly once with x[i] - alpha, the unrolled blocks covering
   [0, n - n mod 32) and the tail [n - n mod 32, n), and touches no index
   outside [0, n); also when y is x itself. *)
C10_SubWritesEachOnce ==
    (kernel = "sub" /\ pc = "done") =>
        /\ ~sub_out.st.oob
        /\ DOMAIN sub_out.st.y = 0 .. (sub_in.n - 1)
        /\ \A i \in 0 .. (sub_in.n - 1) :
              /\ sub_out.st.y[i] = sub_in.x[i] - sub_in.alpha
              /\ sub_out.st.cnt[i] = 1
              /\ sub_out.st.by[i] =
                    IF i < sub_in.n - (sub_in.n % 32) THEN "block" ELSE "tail"

\* the case of C10: two full blocks and a tail, in place
C10_Witness ==
    /\ kernel = "sub" /\ pc = "done"
    /\ sub_in.n = 2 * 32 + 3 /\ sub_in.alias
    /\ sub_out.st.by[63] = "block" /\ sub_out.st.by[64] = "tail"

=============================================================================
